---- MODULE Spec2Model ----
(***************************************************************************)
(* keyjack: a WinKey keyer client (src/src/winkey.rs) that writes the      *)
(* transmit key line into a shared atomic, and a JACK process handler      *)
(* (src/src/jack_handlers/process.rs) that reads it once per audio block   *)
(* and synthesises an enveloped sidetone.                                  *)
(***************************************************************************)
EXTENDS Integers, Sequences, FiniteSets, TLC

VARIABLES
    \* ---- winkey::Client ----
    cpc,            \* position in Client::new / lifetime of the client
    log,            \* operations issued on the serial link, in order
    err,            \* error returned by Client::new ("none" when none)
    slow_open,      \* the low-baud port of slow_init is open
    version,        \* byte read by slow_init, -1 before it is read
    lastWrite,      \* buffer handed to the last write call and the count it returned
    rpc,            \* state of the drain cycle Client::read
    readResult,     \* what the last serial read of the drain loop returned
    chunk,          \* bytes returned by the last successful serial read
    decoded,        \* bytes of that read that on_receive decoded
    branch,         \* match arm taken by the last on_receive
    out,            \* last operator-visible output of on_receive
    status,         \* Client.status
    tx_key_line,    \* the shared Arc<AtomicBool>
    devKey,         \* key-line bit of the last repurposed status byte delivered
    \* ---- jack_handlers::process::Handler ----
    apc,            \* position of the audio thread inside process
    blocks,         \* number of blocks started
    edge,           \* edge seen by the current block: "down", "up" or "none"
    frame,          \* process_scope.last_frame_time() of the current block
    sample_rate,    \* the shared Arc<AtomicUsize>
    snapshot,       \* local tx_key_line of process
    seenLen,        \* number of transitions stored when process last loaded
    last_tx_key_line,
    start_frame_time,
    start_finishing_frame_time,
    rise_samples,   \* rise_samples of the last write_sine
    buf,            \* the output buffer of the current block
    prevLast,       \* last sample of the previous block
    written,        \* key transitions stored by the I/O thread, in order
    detected,       \* key edges seen by process, in order
    upEdgeAt        \* block start frame of the last key-up edge seen, -1 when keyed
                    \* down or never keyed

clientVars == <<cpc, log, err, slow_open, version, lastWrite>>
readVars   == <<rpc, readResult, chunk, decoded, branch, out, status, devKey>>
audioVars  == <<apc, blocks, edge, frame, sample_rate, snapshot, seenLen, last_tx_key_line,
                start_frame_time, start_finishing_frame_time, rise_samples, buf,
                prevLast, detected, upEdgeAt>>
vars == <<clientVars, readVars, tx_key_line, written, audioVars>>

----------------------------------------------------------------------------
\* Bounds of the model

MaxChunk == 2       \* longest serial read modelled (the code's buffer holds 1024)
NFrames == 2        \* frames per audio block
MaxBlocks == 7      \* audio blocks modelled
MaxEdges == 4       \* key transitions stored by the I/O thread

----------------------------------------------------------------------------
\* Constants of winkey.rs

LOW_BAUD == 1200
HIGH_BAUD == 115200
MIN_SPEED == 13
DEFAULT_SPEED == 30
MAX_SPEED == 45
WINKEY_23 == 23
STATUS_BYTE == 192
STATUS_WK2_BYTE == 200
SPEED_POT_BYTE == 128
SPEED_MASK == 127
TX_KEY_MASK == 1

ADMIN_HOST_OPEN == <<0, 2>>
ADMIN_HOST_CLOSE == <<0, 3>>
ADMIN_SET_WK2_MODE == <<0, 11>>
ADMIN_SET_HIGH_BAUD == <<0, 17>>
SET_WK2_MODE == <<14>>
SET_WPM_SPEED == <<2>>
SETUP_SPEED_POT == <<5>>

PADDLE_ECHO_BACK == 64
KEY_MODE_IAMBIC_B == 0
SERIAL_ECHOBACK == 4

\* u8 bitwise operators
RECURSIVE BitAnd(_, _)
BitAnd(a, b) ==
    IF a = 0 \/ b = 0 THEN 0
    ELSE (a % 2) * (b % 2) + 2 * BitAnd(a \div 2, b \div 2)

RECURSIVE BitOr(_, _)
BitOr(a, b) ==
    IF a = 0 THEN b
    ELSE IF b = 0 THEN a
    ELSE (IF a % 2 = 1 \/ b % 2 = 1 THEN 1 ELSE 0) + 2 * BitOr(a \div 2, b \div 2)

\* Command::send: the header bytes followed by the extra bytes, in one write
Command_send(cmd, extra) == cmd \o extra

\* outcomes of one write call on a buffer: -1 an error, else the count accepted
WriteResults(data) == {Len(data), Len(data) - 1, -1}

Entry(op, arg) == [op |-> op, arg |-> arg]


----------------------------------------------------------------------------
\* Inputs of the model

\* version bytes a device may answer host-open with
Versions == {WINKEY_23, 22, 10}

\* bytes a device may deliver in steady state: key down, key up, a plain
\* status byte, a speed-pot report, an echoed character
Bytes == {201, 200, 196, 133, 65}

Chunks == UNION {[1..k -> Bytes] : k \in 0..MaxChunk}

----------------------------------------------------------------------------
\* winkey.rs: Client::new, slow_init, initialize, Drop

\* mutant: the serial echo-back flag left out of the mode byte
ModeFlags_NoSerialEcho == BitOr(PADDLE_ECHO_BACK, KEY_MODE_IAMBIC_B)

\* Mode::PADDLE_ECHO_BACK | Mode::KEY_MODE_IAMBIC_B | Mode::SERIAL_ECHOBACK
ModeFlags == BitOr(BitOr(PADDLE_ECHO_BACK, KEY_MODE_IAMBIC_B), SERIAL_ECHOBACK)

WK2ModeCommand == Command_send(SET_WK2_MODE, <<ModeFlags>>)
SpeedCommand == Command_send(SET_WPM_SPEED, <<DEFAULT_SPEED>>)
SpeedPotCommand == Command_send(SETUP_SPEED_POT, <<MIN_SPEED, MAX_SPEED - MIN_SPEED, 0>>)

\* mutant: any version byte accepted
VersionSupported_Any(v) == v >= 0

\* slow_init: the version check
VersionSupported(v) == v = WINKEY_23

\* Client::new returns Err before a Client exists: nothing is dropped but the
\* local port of slow_init, if it is open
Fail(e) ==
    /\ cpc' = "failed"
    /\ err' = e
    /\ slow_open' = FALSE

OpenLow ==
    /\ cpc = "new"
    /\ log' = Append(log, Entry("open", <<LOW_BAUD>>))
    /\ \E ok \in BOOLEAN :
         IF ok THEN cpc' = "set_wk2_mode" /\ slow_open' = TRUE /\ err' = err
               ELSE Fail("DeviceOpenError")
    /\ UNCHANGED <<version, lastWrite, readVars, tx_key_line, written, audioVars>>

\* one command of slow_init, written to the low-baud port
SlowSend(at, data, next) ==
    /\ cpc = at
    /\ log' = Append(log, Entry("send", data))
    /\ \E n \in WriteResults(data) :
         /\ lastWrite' = [data |-> data, n |-> n]
         /\ IF n >= 0 THEN cpc' = next /\ UNCHANGED <<err, slow_open>>
                      ELSE Fail("WriteError")
    /\ UNCHANGED <<version, readVars, tx_key_line, written, audioVars>>

SendSetWk2Mode == SlowSend("set_wk2_mode", Command_send(ADMIN_SET_WK2_MODE, <<>>), "host_open")

SendHostOpen == SlowSend("host_open", Command_send(ADMIN_HOST_OPEN, <<>>), "read_version")

\* read_exact of one byte, then the version check
ReadVersion ==
    /\ cpc = "read_version"
    /\ log' = Append(log, Entry("read", <<1>>))
    /\ \E r \in Versions \cup {-1} :
         IF r = -1 THEN Fail("ReadError") /\ version' = version
         ELSE /\ version' = r
              /\ IF ~VersionSupported(r) THEN Fail("UnsupportedDeviceVersion")
                 ELSE cpc' = "set_high_baud" /\ UNCHANGED <<err, slow_open>>
    /\ UNCHANGED <<lastWrite, readVars, tx_key_line, written, audioVars>>

SendSetHighBaud == SlowSend("set_high_baud", Command_send(ADMIN_SET_HIGH_BAUD, <<>>), "sleep")

\* the settle delay; slow_init returns Ok and its port is dropped
Sleep ==
    /\ cpc = "sleep"
    /\ log' = Append(log, Entry("sleep", <<400>>))
    /\ cpc' = "open_high"
    /\ slow_open' = FALSE
    /\ UNCHANGED <<err, version, lastWrite, readVars, tx_key_line, written, audioVars>>

OpenHigh ==
    /\ cpc = "open_high"
    /\ log' = Append(log, Entry("open", <<HIGH_BAUD>>))
    /\ \E ok \in BOOLEAN :
         IF ok THEN cpc' = "register" /\ UNCHANGED <<err, slow_open>>
               ELSE Fail("DeviceOpenError")
    /\ UNCHANGED <<version, lastWrite, readVars, tx_key_line, written, audioVars>>

\* registry.register; on success the Client value is built
Register ==
    /\ cpc = "register"
    /\ log' = Append(log, Entry("register", <<>>))
    /\ \E ok \in BOOLEAN :
         IF ok THEN cpc' = "init_mode" /\ UNCHANGED <<err, slow_open>>
               ELSE Fail("ReadinessRegistrationError")
    /\ UNCHANGED <<version, lastWrite, readVars, tx_key_line, written, audioVars>>

\* mutant: a failed host-close is not reported
DropLog_NotReported(l, m) ==
    Append(l, Entry("send", Command_send(ADMIN_HOST_CLOSE, <<>>)))

\* impl Drop for Client: one host-close send; when the write returns an
\* error (m = -1) the closure prints it and the result is discarded
DropLog(l, m) ==
    LET sent == Append(l, Entry("send", Command_send(ADMIN_HOST_CLOSE, <<>>)))
    IN  IF m = -1 THEN Append(sent, Entry("println", <<>>)) ELSE sent

\* one command of initialize, written through the Client; on an error the
\* Client is dropped on the way out of Client::new
InitSend(at, data, next) ==
    /\ cpc = at
    /\ \E n \in WriteResults(data) :
         IF n >= 0
         THEN /\ log' = Append(log, Entry("send", data))
              /\ lastWrite' = [data |-> data, n |-> n]
              /\ cpc' = next
              /\ err' = err
         ELSE /\ \E m \in WriteResults(ADMIN_HOST_CLOSE) :
                   /\ log' = DropLog(Append(log, Entry("send", data)), m)
                   /\ lastWrite' = [data |-> ADMIN_HOST_CLOSE, n |-> m]
              /\ cpc' = "failed"
              /\ err' = "WriteError"
    /\ UNCHANGED <<slow_open, version, readVars, tx_key_line, written, audioVars>>

InitMode == InitSend("init_mode", WK2ModeCommand, "init_speed")

InitSpeed == InitSend("init_speed", SpeedCommand, "init_pot")

InitSpeedPot == InitSend("init_pot", SpeedPotCommand, "active")

\* the owner lets go of the Client: normal teardown, or the exit after
\* Client::read returned an error or unwound
Teardown ==
    /\ cpc = "active"
    /\ \E m \in WriteResults(ADMIN_HOST_CLOSE) :
         /\ log' = DropLog(log, m)
         /\ lastWrite' = [data |-> ADMIN_HOST_CLOSE, n |-> m]
    /\ cpc' = "closed"
    /\ UNCHANGED <<err, slow_open, version, readVars, tx_key_line, written, audioVars>>


----------------------------------------------------------------------------
\* winkey.rs: Client::read and Client::on_receive

\* mutant: the status arm tests the top bit alone
Branch_TopBitOnly(b) ==
    IF BitAnd(b, SPEED_POT_BYTE) = SPEED_POT_BYTE THEN "status"
    ELSE IF BitAnd(b, STATUS_BYTE) = SPEED_POT_BYTE THEN "speedpot"
    ELSE "echo"

\* the match of on_receive on data[0] & STATUS_BYTE: the first arm that matches
Branch(b) ==
    IF BitAnd(b, STATUS_BYTE) = STATUS_BYTE THEN "status"
    ELSE IF BitAnd(b, STATUS_BYTE) = SPEED_POT_BYTE THEN "speedpot"
    ELSE "echo"

\* the status arm's test for the repurposed status byte
IsWk2Status(b) == BitAnd(b, STATUS_WK2_BYTE) = STATUS_WK2_BYTE

\* mutant: the key line taken from bit 3, the bit that marks the repurposed byte
KeyLine_Bit3(b) == BitAnd(b, 8) > 0

\* data[0] & TX_KEY_MASK > 0
KeyLine(b) == BitAnd(b, TX_KEY_MASK) > 0

\* mutant: the speed mask left out
SpeedPotWpm_NoMask(b) == (b + MIN_SPEED) % 256

\* (data[0] & SPEED_MASK) + MIN_SPEED in u8 arithmetic
SpeedPotWpm(b) == (BitAnd(b, SPEED_MASK) + MIN_SPEED) % 256

\* the bytes of a read of count bytes that on_receive looks at
DecodedOf(c) == <<c[1]>>

\* what the device said about the key line in the bytes c, after earlier k
RECURSIVE DeviceKey(_, _)
DeviceKey(c, k) ==
    IF c = <<>> THEN k
    ELSE LET b == Head(c)
             repurposed == (b \div 64 = 3) /\ ((b \div 8) % 2 = 1)
         IN  DeviceKey(Tail(c),
                       IF repurposed THEN (IF b % 2 = 1 THEN "down" ELSE "up") ELSE k)

\* self.tx_key_line.store(v, SeqCst), with the record of the transitions stored
Store(v) ==
    /\ tx_key_line' = v
    /\ written' = IF v # tx_key_line THEN Append(written, v) ELSE written

InCycle == cpc = "active" /\ rpc \in {"none", "draining", "ok"}

\* one turn of the loop of Client::read whose serial read returns Ok(Len(c)),
\* followed by on_receive
ReadOk(c) ==
    /\ InCycle
    /\ readResult' = "ok"
    /\ chunk' = c
    /\ devKey' = DeviceKey(c, devKey)
    /\ IF Len(c) = 0
       THEN \* data[0] of an empty slice: the index panics
            /\ rpc' = "panic"
            /\ decoded' = <<>>
            /\ UNCHANGED <<branch, out, status, tx_key_line, written>>
       ELSE LET b == c[1] IN
            /\ decoded' = DecodedOf(c)
            /\ branch' = Branch(b)
            /\ CASE Branch(b) = "status" ->
                      /\ IF IsWk2Status(b)
                         THEN Store(KeyLine(b)) /\ status' = status
                         ELSE status' = b /\ UNCHANGED <<tx_key_line, written>>
                      /\ rpc' = "draining"
                      /\ out' = out
                 [] Branch(b) = "speedpot" ->
                      /\ out' = [kind |-> "wpm", val |-> SpeedPotWpm(b)]
                      /\ rpc' = "draining"
                      /\ UNCHANGED <<status, tx_key_line, written>>
                 [] OTHER ->
                      /\ out' = [kind |-> "char", val |-> b]
                      /\ \E flushed \in BOOLEAN :
                           rpc' = IF flushed THEN "draining" ELSE "err"
                      /\ UNCHANGED <<status, tx_key_line, written>>
    /\ Len(written') <= MaxEdges
    /\ UNCHANGED <<clientVars, audioVars>>

\* the serial read returns WouldBlock: the loop breaks and read returns Ok
ReadWouldBlock ==
    /\ InCycle
    /\ readResult' = "wouldblock"
    /\ rpc' = "ok"
    /\ UNCHANGED <<clientVars, chunk, decoded, branch, out, status, devKey,
                   tx_key_line, written, audioVars>>

\* mutant: every read error ends the loop like WouldBlock
ReadError_AsWouldBlock ==
    /\ InCycle
    /\ readResult' = "error"
    /\ rpc' = "ok"
    /\ UNCHANGED <<clientVars, chunk, decoded, branch, out, status, devKey,
                   tx_key_line, written, audioVars>>

\* the serial read returns another error: read returns it
ReadError ==
    /\ InCycle
    /\ readResult' = "error"
    /\ rpc' = "err"
    /\ UNCHANGED <<clientVars, chunk, decoded, branch, out, status, devKey,
                   tx_key_line, written, audioVars>>

----------------------------------------------------------------------------
\* jack_handlers: process.rs and notification.rs

\* sample rates the host may announce; chosen so that 1 / rate is a whole
\* number of nanoseconds and the ramp is a few frames long
SampleRates == {800, 1000}

\* last_frame_time of the first block
FirstFrames == {0, 3}

\* key-line bytes of the repurposed status byte: key down, key up
KeyBytes == {201, 200}

\* write_sine: sample_dur = Duration::from_secs_f64(1 / rate), in nanoseconds;
\* rise_samples = (RISE_TIME / sample_dur).round(), RISE_TIME = 5 ms
RiseSamples(rate) ==
    LET dur_ns == 1000000000 \div rate
    IN  (2 * 5000000 + dur_ns) \div (2 * dur_ns)

\* a sample set to 0.
Zero == [zero |-> TRUE, pos |-> 0, rise |-> 0, fall |-> 0, R |-> 1]

\* one output sample: the sine position and the two envelope factors as
\* numerators over R; zero marks a sample forced to 0.
Sample(p, r, f, R) == [zero |-> FALSE, pos |-> p, rise |-> r, fall |-> f, R |-> R]

\* rise time: (pos + n) / rise_samples while pos + n <= rise_samples
RiseGain(p, R) == IF p <= R THEN p ELSE R

\* fall time: 1 - (finish_pos + n) / rise_samples
FallGain(q, R) == R - q

\* mutant: the fall-tail runs one frame longer
InFall_Late(q, R) == q <= R + 1

\* the fall-tail is still running: finish_pos + n <= rise_samples
InFall(q, R) == q <= R

\* write_sine on the block starting at lft: the buffer written and the
\* start_finishing_frame_time left behind
WriteSine(lft, sft, sfft0, rate) ==
    LET R == RiseSamples(rate)
        pos == lft - sft
        finish_pos == lft - sfft0
        RECURSIVE Loop(_, _, _, _)
        Loop(n, finished, sfft, acc) ==
            IF n = NFrames THEN [buf |-> acc, sfft |-> sfft, R |-> R]
            ELSE IF finished THEN Loop(n + 1, TRUE, sfft, Append(acc, Zero))
            ELSE IF sfft > 0
                 THEN IF InFall(finish_pos + n, R)
                      THEN Loop(n + 1, FALSE, sfft,
                                Append(acc, Sample(pos + n, RiseGain(pos + n, R),
                                                   FallGain(finish_pos + n, R), R)))
                      ELSE Loop(n + 1, TRUE, 0, Append(acc, Zero))
                 ELSE Loop(n + 1, FALSE, sfft,
                           Append(acc, Sample(pos + n, RiseGain(pos + n, R), R, R)))
    IN  Loop(0, FALSE, sfft0, <<>>)

\* clear_buf
ClearBuf == [n \in 1..NFrames |-> Zero]

\* mutant: the key line is taken from the handler's last value, not loaded
LoadKeyLine_Stale == last_tx_key_line

\* self.tx_key_line.load(SeqCst)
LoadKeyLine == tx_key_line

\* mutant: an edge is seen whenever the key is down
KeyEdge_Level(tx, last) == tx

\* tx_key_line != self.last_tx_key_line
KeyEdge(tx, last) == tx # last

\* mutant: the phase reference is reset in every keyed block
StartAfterEdge_EveryBlock(tx, last, sft, sfft, lft) == IF tx THEN lft ELSE sft

\* start_frame_time after the edge logic of process
StartAfterEdge(tx, last, sft, sfft, lft) ==
    IF KeyEdge(tx, last) /\ tx /\ ~(sfft > 0) /\ sft = 0 THEN lft ELSE sft

\* mutant: a key-down edge leaves a pending fall-tail in place
FinishAfterEdge_KeepTail(tx, last, sfft, lft) ==
    IF KeyEdge(tx, last) /\ ~tx THEN lft ELSE sfft

\* start_finishing_frame_time after the edge logic of process
FinishAfterEdge(tx, last, sfft, lft) ==
    IF KeyEdge(tx, last)
    THEN IF tx THEN (IF sfft > 0 THEN 0 ELSE sfft) ELSE lft
    ELSE sfft

\* process, first part: the load of the key line and the edge logic
ProcessLoad ==
    /\ apc = "wait"
    /\ blocks < MaxBlocks
    /\ blocks' = blocks + 1
    /\ frame' = IF blocks = 0 THEN frame ELSE frame + NFrames
    /\ LET tx == LoadKeyLine IN
         /\ snapshot' = tx
         /\ start_frame_time' =
              StartAfterEdge(tx, last_tx_key_line, start_frame_time,
                             start_finishing_frame_time, frame')
         /\ start_finishing_frame_time' =
              FinishAfterEdge(tx, last_tx_key_line, start_finishing_frame_time, frame')
         /\ last_tx_key_line' = tx
         /\ edge' = IF KeyEdge(tx, last_tx_key_line)
                    THEN (IF tx THEN "down" ELSE "up") ELSE "none"
         /\ detected' = IF KeyEdge(tx, last_tx_key_line)
                        THEN Append(detected, tx) ELSE detected
         /\ upEdgeAt' = IF KeyEdge(tx, last_tx_key_line)
                        THEN (IF tx THEN -1 ELSE frame') ELSE upEdgeAt
    /\ seenLen' = Len(written)
    /\ apc' = "write"
    /\ UNCHANGED <<clientVars, readVars, tx_key_line, written, sample_rate, rise_samples,
                   buf, prevLast>>

\* process, second part: write_sine or clear_buf
ProcessWrite ==
    /\ apc = "write"
    /\ IF snapshot \/ start_finishing_frame_time > 0
       THEN LET r == WriteSine(frame, start_frame_time, start_finishing_frame_time,
                               sample_rate)
            IN  /\ buf' = r.buf
                /\ start_finishing_frame_time' = r.sfft
                /\ rise_samples' = r.R
                /\ start_frame_time' = start_frame_time
       ELSE /\ start_frame_time' = 0
            /\ buf' = ClearBuf
            /\ UNCHANGED <<start_finishing_frame_time, rise_samples>>
    /\ prevLast' = IF buf = <<>> THEN Zero ELSE buf[Len(buf)]
    /\ apc' = "wait"
    /\ UNCHANGED <<clientVars, readVars, tx_key_line, written, blocks, edge, frame,
                   sample_rate, snapshot, seenLen, last_tx_key_line, detected, upEdgeAt>>

\* notification.rs: the sample_rate callback
NotifySampleRate(srate) ==
    /\ sample_rate' = srate
    /\ UNCHANGED <<clientVars, readVars, tx_key_line, written, apc, blocks, edge, frame,
                   snapshot, seenLen, last_tx_key_line, start_frame_time,
                   start_finishing_frame_time, rise_samples, buf, prevLast, detected,
                   upEdgeAt>>

----------------------------------------------------------------------------
\* Initial state: nothing opened, Handler::new done, the key line up

ClientInit ==
    /\ cpc = "new"
    /\ log = <<>>
    /\ err = "none"
    /\ slow_open = FALSE
    /\ version = -1
    /\ lastWrite = [data |-> <<>>, n |-> 0]

ReadInit ==
    /\ rpc = "none"
    /\ readResult = "none"
    /\ chunk = <<>>
    /\ decoded = <<>>
    /\ branch = "none"
    /\ out = [kind |-> "none", val |-> 0]
    /\ status = 0
    /\ devKey = "none"

AudioInit ==
    /\ apc = "wait"
    /\ blocks = 0
    /\ edge = "none"
    /\ frame \in FirstFrames
    /\ sample_rate \in SampleRates
    /\ snapshot = FALSE
    /\ seenLen = 0
    /\ last_tx_key_line = FALSE
    /\ start_frame_time = 0
    /\ start_finishing_frame_time = 0
    /\ rise_samples = 0
    /\ buf = <<>>
    /\ prevLast = Zero
    /\ detected = <<>>
    /\ upEdgeAt = -1

Init ==
    /\ ClientInit
    /\ ReadInit
    /\ tx_key_line = FALSE
    /\ written = <<>>
    /\ AudioInit

ClientNext ==
    \/ OpenLow
    \/ SendSetWk2Mode
    \/ SendHostOpen
    \/ ReadVersion
    \/ SendSetHighBaud
    \/ Sleep
    \/ OpenHigh
    \/ Register
    \/ InitMode
    \/ InitSpeed
    \/ InitSpeedPot
    \/ \E c \in Chunks : ReadOk(c)
    \/ ReadWouldBlock
    \/ ReadError
    \/ Teardown

\* The client alone: the audio thread has not started and stays where
\* Handler::new left it
ClientSpecInit ==
    /\ Init
    /\ frame = 0
    /\ sample_rate = 800

SpecClient == ClientSpecInit /\ [][ClientNext]_vars



\* The state Client::new leaves behind when it returns Ok, every write whole
ActiveLog ==
    << Entry("open", <<LOW_BAUD>>),
       Entry("send", Command_send(ADMIN_SET_WK2_MODE, <<>>)),
       Entry("send", Command_send(ADMIN_HOST_OPEN, <<>>)),
       Entry("read", <<1>>),
       Entry("send", Command_send(ADMIN_SET_HIGH_BAUD, <<>>)),
       Entry("sleep", <<400>>),
       Entry("open", <<HIGH_BAUD>>),
       Entry("register", <<>>),
       Entry("send", WK2ModeCommand),
       Entry("send", SpeedCommand),
       Entry("send", SpeedPotCommand) >>

Running ==
    /\ cpc = "active"
    /\ log = ActiveLog
    /\ err = "none"
    /\ slow_open = FALSE
    /\ version = WINKEY_23
    /\ lastWrite = [data |-> SpeedPotCommand, n |-> Len(SpeedPotCommand)]

\* The status decoder alone: one byte, any of the 256, handed to on_receive
\* of a running client
DecodeInit ==
    /\ Running
    /\ ReadInit
    /\ tx_key_line \in BOOLEAN
    /\ written = <<>>
    /\ AudioInit

DecodeOnce(b) == rpc = "none" /\ ReadOk(<<b>>)

DecodeNext == \E b \in 0..255 : DecodeOnce(b)

SpecDecode == DecodeInit /\ [][DecodeNext]_vars

\* The running program: the client in its steady state delivering key-line
\* bytes on the I/O thread, the audio thread processing blocks, and the
\* host announcing sample rates
AudioInitState ==
    /\ Running
    /\ ReadInit
    /\ tx_key_line = FALSE
    /\ written = <<>>
    /\ AudioInit

AudioNext ==
    \/ \E b \in KeyBytes : ReadOk(<<b>>)
    \/ ProcessLoad
    \/ ProcessWrite
    \/ \E r \in SampleRates : NotifySampleRate(r)

SpecAudio == AudioInitState /\ [][AudioNext]_vars

----------------------------------------------------------------------------
\* Claims about the protocol client

IsPrefix(s, t) == Len(s) <= Len(t) /\ s = SubSeq(t, 1, Len(s))

HandshakeSequence ==
    << [op |-> "open", arg |-> <<1200>>],
       [op |-> "send", arg |-> <<0, 11>>],
       [op |-> "send", arg |-> <<0, 2>>],
       [op |-> "read", arg |-> <<1>>],
       [op |-> "send", arg |-> <<0, 17>>],
       [op |-> "sleep", arg |-> <<400>>],
       [op |-> "open", arg |-> <<115200>>],
       [op |-> "register", arg |-> <<>>],
       [op |-> "send", arg |-> <<14, 68>>],
       [op |-> "send", arg |-> <<2, 30>>],
       [op |-> "send", arg |-> <<5, 13, 32, 0>>] >>

\* C1: when the device answers host-open with version 23 and Client::new
\* reaches the active state, the operations issued on the link are exactly:
\* open at 1200, send [0,11], send [0,2], read one byte, send [0,17], settle
\* delay, open at 115200, register, send [0x0e,0x44], send [0x02,30],
\* send [0x05,13,32,0]; and while Client::new is under way the operations
\* issued so far are a prefix of that sequence.
C1_HandshakeInOrder ==
    /\ cpc = "active" => version = 23 /\ log = HandshakeSequence
    /\ cpc \notin {"failed", "closed"} => IsPrefix(log, HandshakeSequence)

C1_Witness == cpc = "active" /\ version = 23 /\ Len(log) = 11 /\ err = "none"

\* C2: when the version byte read in the low-speed handshake is not 23,
\* Client::new has failed with the unsupported-version error and the link has
\* seen only the low-baud open, set-protocol-mode, host-open and the read: no
\* switch-to-high-baud, no high-baud open, no configuration command.
C2_UnsupportedVersionStops ==
    (version # -1 /\ version # 23) =>
        /\ cpc = "failed"
        /\ err = "UnsupportedDeviceVersion"
        /\ log = SubSeq(HandshakeSequence, 1, 4)
        /\ \A i \in 1..Len(log) :
             /\ log[i] # [op |-> "send", arg |-> <<0, 17>>]
             /\ log[i] # [op |-> "open", arg |-> <<115200>>]
             /\ log[i].op = "send" => log[i].arg[1] = 0

C2_Witness == version = 22 /\ cpc = "failed" /\ err = "UnsupportedDeviceVersion"

\* C3: for each of the 256 byte values handed to the status decoder exactly
\* one branch fires, decided by the top two bits: 11 the status update, 10
\* the speed-pot report, anything else the echoed character; and only that
\* branch's effect takes place.
C3_DecodePartition ==
    chunk # <<>> =>
        LET b == chunk[1]
            top == b \div 64
        IN  /\ branch \in {"status", "speedpot", "echo"}
            /\ (branch = "status") <=> (top = 3)
            /\ (branch = "speedpot") <=> (top = 2)
            /\ (branch = "echo") <=> (top \in {0, 1})
            /\ (out.kind = "wpm") <=> (top = 2)
            /\ (out.kind = "char") <=> (top \in {0, 1})
            /\ top # 3 => status = 0 /\ written = <<>>

C3_Witness == chunk = <<191>> /\ branch = "speedpot" /\ out.kind = "wpm"

\* C4: whenever a drain cycle has returned Ok, key_down equals the key-line
\* bit of the most recent repurposed status byte the device has delivered,
\* however the bytes were grouped into reads.
C4_KeyDownIsLatestDelivered ==
    (rpc = "ok" /\ devKey # "none") => (tx_key_line = (devKey = "down"))

\* C10: once the handshake has succeeded and slow_init has returned, every
\* exit (teardown, or a failure of a later setup step) has sent host-close.
HandshakeDone ==
    /\ version = 23
    /\ \E i \in 1..Len(log) : log[i].op = "sleep"

HostCloseSent ==
    \E i \in 1..Len(log) : log[i] = [op |-> "send", arg |-> <<0, 3>>]

C10_HostCloseOnEveryExit ==
    (HandshakeDone /\ cpc \in {"failed", "closed"}) => HostCloseSent


----------------------------------------------------------------------------
\* Claims about the hand-off between the I/O thread and the audio thread

\* the value of the most recent of the first k transitions stored (the key
\* line starts up)
LastStored(k) == IF k = 0 THEN FALSE ELSE written[k]

\* C5: the key_down snapshot of every audio block equals the value of the
\* most recent store of the I/O thread completed before the block's load,
\* under every interleaving of stores and blocks.
C5_SnapshotIsLatestStore ==
    blocks > 0 => snapshot = LastStored(seenLen)

C5_Witness ==
    /\ apc = "write"
    /\ seenLen = 2
    /\ ~snapshot
    /\ Len(written) = 3
    /\ tx_key_line

\* C6 as stated: the edges the engine has detected are exactly the
\* transitions stored before its last load, in order, none missed.
C6_NoTransitionMissed ==
    blocks > 0 => detected = SubSeq(written, 1, seenLen)

\* C6 as amended: the edges detected are, in order, transitions that were
\* stored (none invented, none reordered), and the stored transitions not
\* detected are an even number: a transition is missed only together with
\* the opposite one stored before the same block's load.
C6_EdgesInOrderMissedInPairs ==
    blocks > 0 =>
        /\ Len(detected) <= seenLen
        /\ detected = SubSeq(written, 1, Len(detected))
        /\ (seenLen - Len(detected)) % 2 = 0
        /\ last_tx_key_line = LastStored(seenLen)

C6_Witness ==
    /\ Len(detected) = 2
    /\ seenLen = 4
    /\ apc = "write"

----------------------------------------------------------------------------
\* Claims about the envelope

\* gain applied to a sample, as a numerator over R * R
Gain(s) == IF s.zero THEN 0 ELSE s.rise * s.fall

Abs(x) == IF x < 0 THEN -x ELSE x

\* two consecutive samples computed at one sample rate differ in gain by at
\* most one ramp step 1 / R
StepOK(a, b) ==
    LET R == IF a.zero THEN b.R ELSE a.R
    IN  (a.zero \/ b.zero \/ a.R = b.R) => Abs(Gain(a) - Gain(b)) <= R

\* C7: the envelope gain of two consecutive output samples, inside a block
\* and across a block boundary, differs by at most one ramp step.
C7_NoClick ==
    (apc = "wait" /\ blocks > 0) =>
        /\ StepOK(prevLast, buf[1])
        /\ \A n \in 1..(NFrames - 1) : StepOK(buf[n], buf[n + 1])

\* C8: once a key-up edge has been seen at block start frame T and until the
\* next key-down edge is seen, every sample at a frame later than
\* T + rise_samples is exactly zero, and once such a sample has been
\* produced the fall-tail state is cleared.
C8_SilenceAfterFallTail ==
    (apc = "wait" /\ blocks > 0 /\ upEdgeAt >= 0) =>
        /\ \A n \in 1..NFrames :
             (frame + n - 1 > upEdgeAt + rise_samples) => buf[n].zero
        /\ (frame + NFrames - 1 > upEdgeAt + rise_samples) =>
             start_finishing_frame_time = 0

C8_Witness ==
    /\ apc = "wait"
    /\ upEdgeAt >= 0
    /\ ~buf[1].zero
    /\ buf[NFrames].zero
    /\ frame + NFrames - 1 > upEdgeAt + rise_samples
    /\ start_finishing_frame_time = 0

\* C9: in a block that finds the key still down, the phase reference is
\* unchanged, every sample's position is its frame minus the reference, and
\* positions are consecutive inside the block and across the boundary with
\* the block before.
C9_PhaseContinuity ==
    [][ /\ (apc = "wait" /\ apc' = "write" /\ last_tx_key_line /\ snapshot') =>
             start_frame_time' = start_frame_time
        /\ (apc = "write" /\ apc' = "wait" /\ snapshot /\ edge = "none") =>
             /\ start_frame_time' = start_frame_time
             /\ \A n \in 1..NFrames :
                  /\ ~buf'[n].zero
                  /\ buf'[n].pos = frame + n - 1 - start_frame_time
             /\ \A n \in 1..(NFrames - 1) : buf'[n + 1].pos = buf'[n].pos + 1
             /\ ~buf[NFrames].zero
             /\ buf'[1].pos = buf[NFrames].pos + 1
      ]_vars

C9_Witness ==
    /\ apc = "wait"
    /\ blocks >= 3
    /\ snapshot
    /\ edge = "none"
    /\ ~prevLast.zero
    /\ buf[1].pos = prevLast.pos + 1
    /\ buf[1].pos = frame - start_frame_time
    /\ start_frame_time > 0


----------------------------------------------------------------------------
\* Claims about the drain loop, the decoder's values and teardown

\* C11: a serial read that returns WouldBlock ends the drain cycle with
\* Ok; a read that returns any other error ends it with that error, and after
\* it no further read is made and nothing more is decoded.
C11_WouldBlockOkErrorTerminal ==
    /\ [](readResult = "wouldblock" => rpc = "ok")
    /\ [](readResult = "error" => rpc = "err")
    /\ [][rpc = "err" => UNCHANGED <<rpc, readResult, chunk, decoded, tx_key_line>>]_vars

C11_Witness == readResult = "error" /\ rpc = "err" /\ chunk # <<>>


\* C12 as stated: byte 0xC8 takes the status branch and its repurposed
\* sub-branch, and key_down is stored as true.
C12_C8StoresKeyDown ==
    chunk = <<200>> => branch = "status" /\ status = 0 /\ tx_key_line

\* C12 as amended: byte 0xC8 takes the status branch and its repurposed
\* sub-branch (Client.status is left alone), and its key-line bit, the low
\* bit, is clear: key_down is stored as false. Byte 0xC9 stores true.
C12_C8StoresKeyUp ==
    /\ chunk = <<200>> => branch = "status" /\ status = 0 /\ ~tx_key_line
    /\ chunk = <<201>> => branch = "status" /\ status = 0 /\ tx_key_line

\* 0xC8 decoded while key_down was true: the store changed it to false
C12_Witness == chunk = <<200>> /\ written = <<FALSE>> /\ ~tx_key_line

\* C13: on the speed-pot branch the speed reported is the low 7 bits plus 13,
\* the sum stays below 256, and 0x85 is reported as 18.
C13_SpeedPotWpm ==
    (chunk # <<>> /\ branch = "speedpot") =>
        /\ out.kind = "wpm"
        /\ out.val = (chunk[1] % 128) + 13
        /\ (chunk[1] % 128) + 13 <= 255
        /\ chunk[1] = 133 => out.val = 18

C13_Witness == chunk = <<133>> /\ out = [kind |-> "wpm", val |-> 18]


----------------------------------------------------------------------------
\* Claims about key-down edges and the fall-tail

\* C14: in every block that sees a key-down edge the phase reference is the
\* block's start frame, so its first sample has position 0 and gain 0.
C14_KeyDownResetsPhase ==
    (blocks > 0 /\ edge = "down") =>
        /\ start_frame_time = frame
        /\ apc = "wait" => buf[1].pos = 0 /\ Gain(buf[1]) = 0

\* C15: a key-down edge seen while a fall-tail is pending cancels the tail
\* and starts a new rise at that block: the tail state is cleared and the
\* phase reference, from which the rise is measured, is the block's start.
C15_KeyDownInTailStartsNewRise ==
    [][ (apc = "wait" /\ apc' = "write" /\ edge' = "down"
            /\ start_finishing_frame_time > 0) =>
           /\ start_finishing_frame_time' = 0
           /\ start_frame_time' = frame'
      ]_vars

\* C20: at the end of every block a pending fall-tail implies that the last
\* key state seen is up.
C20_TailOnlyWhenKeyUp ==
    (apc = "wait" /\ start_finishing_frame_time > 0) => ~last_tx_key_line

C20_Witness ==
    /\ apc = "wait"
    /\ blocks >= 2
    /\ start_finishing_frame_time > 0
    /\ ~last_tx_key_line
    /\ ~buf[NFrames].zero
    /\ tx_key_line


----------------------------------------------------------------------------
\* Claims about reads, writes and teardown of the protocol client

\* C16: every byte a successful serial read returns is decoded, in arrival
\* order: the bytes handed to the decoder are the bytes of the read.
C16_EveryReadByteDecoded ==
    (readResult = "ok" /\ chunk # <<>>) => decoded = chunk

HostClose == [op |-> "send", arg |-> <<0, 3>>]

CloseCount(l) == Cardinality({i \in 1..Len(l) : l[i] = HostClose})

\* C17: once the client has been dropped, host-close was sent exactly once
\* and is the last command; if its write failed the failure is printed right
\* after it, the drop raised no error (a teardown leaves no error, a failed
\* configuration step leaves only its own), and nothing is issued afterwards.
C17_TeardownCompletes ==
    /\ [](HostCloseSent =>
            /\ cpc \in {"closed", "failed"}
            /\ CloseCount(log) = 1
            /\ lastWrite.data = <<0, 3>>
            /\ IF lastWrite.n = -1
               THEN /\ log[Len(log)] = [op |-> "println", arg |-> <<>>]
                    /\ log[Len(log) - 1] = HostClose
               ELSE log[Len(log)] = HostClose
            /\ cpc = "closed" => err = "none"
            /\ cpc = "failed" => err = "WriteError")
    /\ [][HostCloseSent => UNCHANGED <<cpc, log, err, lastWrite>>]_vars

C17_Witness ==
    /\ cpc = "closed"
    /\ err = "none"
    /\ lastWrite = [data |-> <<0, 3>>, n |-> -1]
    /\ log[Len(log)].op = "println"
    /\ rpc = "err"

\* C18: the decoder only ever runs on a read of at least one byte, and no
\* outcome of a serial read makes Client::read panic.
C18_NoDecodeOfEmptyRead ==
    /\ rpc # "panic"
    /\ readResult = "ok" => Len(chunk) > 0

\* C19: a write call that did not report an error accepted the whole
\* command.
C19_CommandsWrittenWhole ==
    lastWrite.n # -1 => lastWrite.n = Len(lastWrite.data)

====
